---- MODULE Spec2Model ----
(***************************************************************************)
(* multipyline: dedent-and-trim (multipyline), indent-and-trim             *)
(* (multipyline_inner) and template substitution (multipylinef).           *)
(*                                                                         *)
(* A Python str is modelled as a sequence of one-character strings.  The   *)
(* library primitives the module calls (textwrap.dedent, textwrap.indent,  *)
(* str.strip, str.splitlines, str.format, ...) are modelled by what they   *)
(* do on the characters of the model's alphabet: space, tab, newline,      *)
(* braces and ordinary letters.                                            *)
(***************************************************************************)
EXTENDS Integers, Sequences, FiniteSets, TLC

VARIABLES
    fn,              \* the function being called
    s,               \* parameter s (the string / the template)
    prefix,          \* parameter prefix of multipyline_inner
    args,            \* parameter *args of multipylinef
    pc,              \* position of the call
    line_idx,        \* index of the line the scan loop of multipylinef is at
    arg_counter,     \* local arg_counter of multipylinef
    formatted_args,  \* local formatted_args of multipylinef
    printed,         \* whether print(formatted_args) has run
    formatted,       \* local formatted of multipylinef
    ret,             \* the value returned
    ret2,            \* the value returned by multipyline applied to ret
    error,           \* the exception raised, "none" when none
    raised_at        \* position of the call when the exception was raised

vars == <<fn, s, prefix, args, pc, line_idx, arg_counter, formatted_args,
          printed, formatted, ret, ret2, error, raised_at>>

----------------------------------------------------------------------------
(* Characters *)

SP == " "
TAB == "\t"
NL == "\n"
LB == "{"
RB == "}"

\* characters str.strip() removes and str.isspace() accepts
Whitespace == {SP, TAB, NL}
\* characters textwrap.dedent counts as indentation: the class [ \t]
Blank == {SP, TAB}
\* characters str.splitlines() breaks lines at
LineBreak == {NL}

\* the placeholder marker
TEMPLATE == <<LB, RB>>

NoValue == <<"<none>">>

----------------------------------------------------------------------------
(* str primitives *)

RECURSIVE Concat(_)
Concat(ss) == IF ss = <<>> THEN <<>> ELSE Head(ss) \o Concat(Tail(ss))

startswith(str, pre) ==
    /\ Len(pre) <= Len(str)
    /\ SubSeq(str, 1, Len(pre)) = pre

\* str[n:] for n >= 0
DropFirst(str, n) == SubSeq(str, n + 1, Len(str))

\* str.find(sub): the 0-based index of the first occurrence, -1 when none
find(str, sub) ==
    LET hits == {i \in 0..(Len(str) - Len(sub)) :
                     SubSeq(str, i + 1, i + Len(sub)) = sub}
    IN  IF hits = {} THEN -1
        ELSE CHOOSE i \in hits : \A j \in hits : i <= j

\* a test for sub that looks at the start of str only
contains_at_start(str, sub) == startswith(str, sub)

\* sub in str
contains(str, sub) == find(str, sub) # -1

\* a count that stops at the first occurrence
count_first(str, sub) == IF find(str, sub) # -1 THEN 1 ELSE 0

\* str.count(sub): the number of non-overlapping occurrences, left to right
RECURSIVE count(_, _)
count(str, sub) ==
    LET i == find(str, sub)
    IN  IF i = -1 THEN 0
        ELSE 1 + count(DropFirst(str, i + Len(sub)), sub)

\* str.strip(): leading and trailing whitespace removed
RECURSIVE lstrip(_)
lstrip(str) ==
    IF str # <<>> /\ Head(str) \in Whitespace THEN lstrip(Tail(str)) ELSE str

RECURSIVE rstrip(_)
rstrip(str) ==
    IF str # <<>> /\ str[Len(str)] \in Whitespace
    THEN rstrip(SubSeq(str, 1, Len(str) - 1))
    ELSE str

\* a strip that removes one whitespace character at most from each end
strip_once(str) ==
    LET l == IF str # <<>> /\ Head(str) \in Whitespace THEN Tail(str) ELSE str
    IN  IF l # <<>> /\ l[Len(l)] \in Whitespace
        THEN SubSeq(l, 1, Len(l) - 1)
        ELSE l

\* a strip that removes spaces and tabs but no newline
strip_blank(str) ==
    LET lead == {i \in 1..Len(str) : str[i] \notin Blank}
    IN  IF lead = {} THEN <<>>
        ELSE SubSeq(str,
                    CHOOSE i \in lead : \A j \in lead : i <= j,
                    CHOOSE i \in lead : \A j \in lead : i >= j)

strip(str) == rstrip(lstrip(str))

\* str.splitlines(keepends=True): each line with its line break; a final line
\* break opens no further line; the empty string has no lines
RECURSIVE splitlines_keepends(_)
splitlines_keepends(str) ==
    IF str = <<>> THEN <<>>
    ELSE LET brk == {i \in 1..Len(str) : str[i] \in LineBreak}
         IN  IF brk = {} THEN <<str>>
             ELSE LET i == CHOOSE k \in brk : \A j \in brk : k <= j
                  IN  <<SubSeq(str, 1, i)>>
                          \o splitlines_keepends(DropFirst(str, i))

\* str.splitlines(): the same lines without their line breaks
splitlines(str) ==
    LET ls == splitlines_keepends(str)
    IN  [k \in 1..Len(ls) |->
            IF ls[k][Len(ls[k])] \in LineBreak
            THEN SubSeq(ls[k], 1, Len(ls[k]) - 1)
            ELSE ls[k]]

\* str.split("\n"): the pieces between newlines, always one at least
RECURSIVE split_nl(_)
split_nl(str) ==
    LET brk == {i \in 1..Len(str) : str[i] = NL}
    IN  IF brk = {} THEN <<str>>
        ELSE LET i == CHOOSE k \in brk : \A j \in brk : k <= j
             IN  <<SubSeq(str, 1, i - 1)>> \o split_nl(DropFirst(str, i))

\* "\n".join(pieces)
RECURSIVE join_nl(_)
join_nl(pieces) ==
    IF pieces = <<>> THEN <<>>
    ELSE IF Len(pieces) = 1 THEN pieces[1]
    ELSE pieces[1] \o <<NL>> \o join_nl(Tail(pieces))

----------------------------------------------------------------------------
(* textwrap.dedent *)

\* _whitespace_only_re.sub('', text): the regular expression ^[ \t]+$ in
\* MULTILINE mode empties every line made of spaces and tabs only
whitespace_only_sub(text) ==
    LET ls == split_nl(text)
    IN  join_nl([k \in 1..Len(ls) |->
                    IF \A i \in 1..Len(ls[k]) : ls[k][i] \in Blank
                    THEN <<>> ELSE ls[k]])

\* the run of spaces and tabs a line starts with
RECURSIVE leading_blank(_)
leading_blank(line) ==
    IF line # <<>> /\ Head(line) \in Blank
    THEN <<Head(line)>> \o leading_blank(Tail(line))
    ELSE <<>>

\* _leading_whitespace_re.findall(text): the regular expression
\* (^[ \t]*)(?:[^ \t\n]) in MULTILINE mode yields the indentation of every
\* line that holds a character other than space, tab and newline
leading_whitespace_findall(text) ==
    LET ls == split_nl(text)
        nonblank == SelectSeq(ls, LAMBDA l : \E i \in 1..Len(l) : l[i] \notin Blank)
    IN  [k \in 1..Len(nonblank) |-> leading_blank(nonblank[k])]

\* the longest common prefix of two strings
RECURSIVE common_prefix(_, _)
common_prefix(x, y) ==
    IF x # <<>> /\ y # <<>> /\ Head(x) = Head(y)
    THEN <<Head(x)>> \o common_prefix(Tail(x), Tail(y))
    ELSE <<>>

\* the loop over indents: margin is None (NoValue) before the first one
RECURSIVE fold_margin(_, _)
fold_margin(margin, indents) ==
    IF indents = <<>> THEN margin
    ELSE LET indent == Head(indents)
             next == IF margin = NoValue THEN indent
                     ELSE IF startswith(indent, margin) THEN margin
                     ELSE IF startswith(margin, indent) THEN indent
                     ELSE common_prefix(margin, indent)
         IN  fold_margin(next, Tail(indents))

\* re.sub(r'(?m)^' + margin, '', text): margin removed from the start of
\* every line that starts with it
remove_margin(text, margin) ==
    LET ls == split_nl(text)
    IN  join_nl([k \in 1..Len(ls) |->
                    IF startswith(ls[k], margin)
                    THEN DropFirst(ls[k], Len(margin)) ELSE ls[k]])

dedent(text) ==
    LET t == whitespace_only_sub(text)
        margin == fold_margin(NoValue, leading_whitespace_findall(t))
    IN  IF margin # NoValue /\ margin # <<>> THEN remove_margin(t, margin) ELSE t

----------------------------------------------------------------------------
(* textwrap.indent with a predicate that accepts every line *)

\* an indent that puts the prefix in front of the text as a whole
indent_text(text, pre) == pre \o text

indent(text, pre) ==
    LET ls == splitlines_keepends(text)
    IN  Concat([k \in 1..Len(ls) |-> pre \o ls[k]])

----------------------------------------------------------------------------
(* multipyline, multipyline_inner *)

multipyline(str) == strip(dedent(str))

\* multipyline_inner without its final strip
multipyline_inner_untrimmed(str, pre) == indent(multipyline(str), pre)

multipyline_inner(str, pre) == strip(indent(multipyline(str), pre))

----------------------------------------------------------------------------
(* str.format with positional arguments *)

\* the index of the first brace of str, 0 when it has none
first_brace(str) ==
    LET b == {i \in 1..Len(str) : str[i] \in {LB, RB}}
    IN  IF b = {} THEN 0 ELSE CHOOSE i \in b : \A j \in b : i <= j

Fail(e) == [err |-> e, out |-> NoValue]

\* The format string is read left to right: "{{" and "}}" are the literal
\* braces, a lone "}" and a "{" that ends the string are errors, and any other
\* "{" opens a replacement field that runs to the next "}".  An empty field
\* name takes the next positional argument.  A field name made of the model's
\* characters (no digit, no ':', '!', '.', '[') names a keyword argument, and
\* the call passes none.  auto is the number of arguments taken so far.
RECURSIVE format_from(_, _, _)
format_from(str, fargs, auto) ==
    IF str = <<>> THEN [err |-> "none", out |-> <<>>]
    ELSE IF Head(str) \notin {LB, RB} THEN
        LET r == format_from(Tail(str), fargs, auto)
        IN  IF r.err # "none" THEN r
            ELSE [err |-> "none", out |-> <<Head(str)>> \o r.out]
    ELSE IF Len(str) >= 2 /\ str[2] = Head(str) THEN
        LET r == format_from(DropFirst(str, 2), fargs, auto)
        IN  IF r.err # "none" THEN r
            ELSE [err |-> "none", out |-> <<Head(str)>> \o r.out]
    ELSE IF Head(str) = RB THEN Fail("ValueError")
    ELSE IF Len(str) = 1 THEN Fail("ValueError")
    ELSE
        LET j == first_brace(Tail(str))
        IN  IF j = 0 \/ Tail(str)[j] = LB THEN Fail("ValueError")
            ELSE IF j > 1 THEN Fail("KeyError")
            ELSE IF auto >= Len(fargs) THEN Fail("IndexError")
            ELSE LET r == format_from(DropFirst(str, 2), fargs, auto + 1)
                 IN  IF r.err # "none" THEN r
                     ELSE [err |-> "none", out |-> fargs[auto + 1] \o r.out]

format(str, fargs) == format_from(str, fargs, 0)

----------------------------------------------------------------------------
(* multipylinef: the body of the scan loop *)

\* the scan with the argument read before the markers of the line are counted
scan_outcome_argument_first(line, counter, nargs) ==
    IF ~contains(line, TEMPLATE) THEN "continue"
    ELSE IF counter >= nargs THEN "IndexError"
    ELSE IF count(line, TEMPLATE) > 1 THEN "ValueError"
    ELSE "argument"

\* what one iteration does with its line: skip it, raise, or take an argument
scan_outcome(line, counter, nargs) ==
    IF ~contains(line, TEMPLATE) THEN "continue"
    ELSE IF count(line, TEMPLATE) > 1 THEN "ValueError"
    ELSE IF counter >= nargs THEN "IndexError"
    ELSE "argument"

\* the replacement computed for the argument taken at a line
formatted_argument(line, argument) ==
    IF Len(splitlines(argument)) > 1 /\ startswith(dedent(line), TEMPLATE)
    THEN multipyline_inner(argument, SubSeq(line, 1, find(line, TEMPLATE)))
    ELSE argument

----------------------------------------------------------------------------
(* Inputs *)

MaxLen == 5
MaxInnerLen == 5
MaxPrefixLen == 2
MaxLines == 3
MaxArgs == 2

StrsUpTo(chars, n) == UNION {[1..k -> chars] : k \in 0..n}

\* the strings multipyline is called with
DedentInputs == StrsUpTo({SP, TAB, NL, "a"}, MaxLen)

\* the strings and prefixes multipyline_inner is called with
InnerInputs == StrsUpTo({SP, NL, "a"}, MaxInnerLen)
Prefixes == StrsUpTo({SP, NL, "a"}, MaxPrefixLen)

\* the lines templates are made of: text, a placeholder at the start of the
\* line, after indentation and after text, two placeholders, and braces that
\* are no placeholder
TemplateLines ==
    { <<"a">>,
      <<SP, SP, "a">>,
      <<LB, RB>>,
      <<SP, SP, LB, RB>>,
      <<"a", LB, RB>>,
      <<LB, RB, LB, RB>>,
      <<LB, LB, RB, RB>>,
      <<RB>> }

\* "    def fun():\n        {}"
ExampleTemplate ==
    <<SP, SP, SP, SP, "d", "e", "f", SP, "f", "u", "n", "(", ")", ":", NL,
      SP, SP, SP, SP, SP, SP, SP, SP, LB, RB>>

\* "def fun():\n    a\n    b"
ExampleResult ==
    <<"d", "e", "f", SP, "f", "u", "n", "(", ")", ":", NL,
      SP, SP, SP, SP, "a", NL, SP, SP, SP, SP, "b">>

\* "a\nb"
ExampleArgument == <<"a", NL, "b">>

Templates ==
    {join_nl(ls) : ls \in UNION {[1..k -> TemplateLines] : k \in 1..MaxLines}}

\* "x", " y\n\n  z"
Arguments ==
    { <<"x">>,
      <<SP, "y", NL, NL, SP, SP, "z">> }

ArgumentLists == UNION {[1..k -> Arguments] : k \in 0..MaxArgs}

\* the calls of multipylinef: a template and its arguments
Calls ==
    (Templates \X ArgumentLists)
        \cup {<<ExampleTemplate, <<ExampleArgument>>>>,
              <<ExampleTemplate, <<>>>>}

----------------------------------------------------------------------------
(* Calls of multipyline and multipyline_inner *)

InitPure ==
    /\ \/ /\ fn = "multipyline"
          /\ s \in DedentInputs
          /\ prefix = NoValue
       \/ /\ fn = "multipyline_inner"
          /\ s \in InnerInputs
          /\ prefix \in Prefixes
    /\ args = <<>>
    /\ pc = "call"
    /\ line_idx = 0
    /\ arg_counter = 0
    /\ formatted_args = <<>>
    /\ printed = FALSE
    /\ formatted = NoValue
    /\ ret = NoValue
    /\ ret2 = NoValue
    /\ error = "none"
    /\ raised_at = "none"

CallMultipyline ==
    /\ fn = "multipyline"
    /\ pc = "call"
    /\ ret' = multipyline(s)
    /\ pc' = "done"
    /\ UNCHANGED <<fn, s, prefix, args, line_idx, arg_counter, formatted_args,
                   printed, formatted, ret2, error, raised_at>>

\* multipyline called again, with the string the first call returned
CallMultipylineAgain ==
    /\ fn = "multipyline"
    /\ pc = "done"
    /\ ret2' = multipyline(ret)
    /\ pc' = "again"
    /\ UNCHANGED <<fn, s, prefix, args, line_idx, arg_counter, formatted_args,
                   printed, formatted, ret, error, raised_at>>

CallMultipylineInner ==
    /\ fn = "multipyline_inner"
    /\ pc = "call"
    /\ ret' = multipyline_inner(s, prefix)
    /\ pc' = "done"
    /\ UNCHANGED <<fn, s, prefix, args, line_idx, arg_counter, formatted_args,
                   printed, formatted, ret2, error, raised_at>>

NextPure ==
    \/ CallMultipyline
    \/ CallMultipylineAgain
    \/ CallMultipylineInner

SpecPure == InitPure /\ [][NextPure]_vars

----------------------------------------------------------------------------
(* A call of multipylinef *)

Init ==
    /\ fn = "multipylinef"
    /\ \E call \in Calls :
           /\ s = call[1]
           /\ args = call[2]
    /\ prefix = NoValue
    /\ pc = "scan"
    /\ line_idx = 1
    /\ arg_counter = 0
    /\ formatted_args = [k \in 1..Len(args) |-> <<>>]
    /\ printed = FALSE
    /\ formatted = NoValue
    /\ ret = NoValue
    /\ ret2 = NoValue
    /\ error = "none"
    /\ raised_at = "none"

\* the line the scan loop is at
line == splitlines(s)[line_idx]

Scanning == pc = "scan" /\ line_idx <= Len(splitlines(s))

\* if TEMPLATE not in line: continue
ScanContinue ==
    /\ Scanning
    /\ scan_outcome(line, arg_counter, Len(args)) = "continue"
    /\ line_idx' = line_idx + 1
    /\ UNCHANGED <<fn, s, prefix, args, pc, arg_counter, formatted_args,
                   printed, formatted, ret, ret2, error, raised_at>>

\* raise ValueError, and args[arg_counter] raising IndexError
ScanRaise ==
    /\ Scanning
    /\ scan_outcome(line, arg_counter, Len(args)) \in {"ValueError", "IndexError"}
    /\ error' = scan_outcome(line, arg_counter, Len(args))
    /\ raised_at' = "scan"
    /\ pc' = "raised"
    /\ UNCHANGED <<fn, s, prefix, args, line_idx, arg_counter, formatted_args,
                   printed, formatted, ret, ret2>>

\* the argument at the cursor is taken, formatted and stored
ScanArgument ==
    /\ Scanning
    /\ scan_outcome(line, arg_counter, Len(args)) = "argument"
    /\ formatted_args' =
           [formatted_args EXCEPT
               ![arg_counter + 1] = formatted_argument(line, args[arg_counter + 1])]
    /\ arg_counter' = arg_counter + 1
    /\ line_idx' = line_idx + 1
    /\ UNCHANGED <<fn, s, prefix, args, pc, printed, formatted, ret, ret2,
                   error, raised_at>>

\* print(formatted_args), once the loop is over
PrintArgs ==
    /\ pc = "scan"
    /\ line_idx > Len(splitlines(s))
    /\ printed' = TRUE
    /\ pc' = "format"
    /\ UNCHANGED <<fn, s, prefix, args, line_idx, arg_counter, formatted_args,
                   formatted, ret, ret2, error, raised_at>>

\* formatted = s.format(*formatted_args)
Format ==
    /\ pc = "format"
    /\ LET r == format(s, formatted_args)
       IN  IF r.err = "none"
           THEN /\ formatted' = r.out
                /\ pc' = "return"
                /\ UNCHANGED <<error, raised_at>>
           ELSE /\ error' = r.err
                /\ raised_at' = "format"
                /\ pc' = "raised"
                /\ UNCHANGED formatted
    /\ UNCHANGED <<fn, s, prefix, args, line_idx, arg_counter, formatted_args,
                   printed, ret, ret2>>

\* return multipyline(formatted)
Return ==
    /\ pc = "return"
    /\ ret' = multipyline(formatted)
    /\ pc' = "done"
    /\ UNCHANGED <<fn, s, prefix, args, line_idx, arg_counter, formatted_args,
                   printed, formatted, ret2, error, raised_at>>

Next ==
    \/ ScanContinue
    \/ ScanRaise
    \/ ScanArgument
    \/ PrintArgs
    \/ Format
    \/ Return

Spec == Init /\ [][Next]_vars

----------------------------------------------------------------------------
(* Vocabulary of the properties *)

Terminated == pc \in {"done", "raised"}

IsWhitespaceOnly(str) == \A i \in 1..Len(str) : str[i] \in Whitespace

HasLineBreak(str) == \E i \in 1..Len(str) : str[i] \in LineBreak

NonBlankLine(l) == \E i \in 1..Len(l) : l[i] \notin Whitespace

\* the positions at which a placeholder marker starts
MarkerPositions(str) ==
    {i \in 1..(Len(str) - 1) : str[i] = LB /\ str[i + 1] = RB}

\* the number of placeholder markers; two markers never overlap
Occurrences(str) == Cardinality(MarkerPositions(str))

AtMostOnePerLine(str) ==
    \A k \in 1..Len(splitlines(str)) : Occurrences(splitlines(str)[k]) <= 1

HasMultipleLine(str) ==
    \E k \in 1..Len(splitlines(str)) : Occurrences(splitlines(str)[k]) > 1

\* the index of the first line that holds more than one marker
FirstMultipleLine(str) ==
    CHOOSE k \in 1..Len(splitlines(str)) :
        /\ Occurrences(splitlines(str)[k]) > 1
        /\ \A j \in 1..(k - 1) : Occurrences(splitlines(str)[j]) <= 1

\* the number of lines above line k that hold exactly one marker
SinglesAbove(str, k) ==
    Cardinality({j \in 1..(k - 1) : Occurrences(splitlines(str)[j]) = 1})

\* the lines that hold exactly one marker, top to bottom
SingleMarkerLines(str) ==
    SelectSeq(splitlines(str), LAMBDA l : Occurrences(l) = 1)

\* str with its k-th marker, left to right, replaced by reps[k]
RECURSIVE Substitute(_, _)
Substitute(str, reps) ==
    IF str = <<>> THEN <<>>
    ELSE IF reps # <<>> /\ startswith(str, TEMPLATE)
    THEN Head(reps) \o Substitute(DropFirst(str, 2), Tail(reps))
    ELSE <<Head(str)>> \o Substitute(Tail(str), reps)

\* the replacement the substitution rule gives an argument at a line that
\* holds one marker
Replacement(l, argument) ==
    LET at == CHOOSE i \in MarkerPositions(l) : TRUE
        before == SubSeq(l, 1, at - 1)
    IN  IF Len(splitlines(argument)) > 1 /\ IsWhitespaceOnly(before)
        THEN multipyline_inner(argument, before)
        ELSE argument

\* the template's lines with each single marker replaced by the replacement
\* of the argument of its rank
RECURSIVE ReplacedLines(_, _)
ReplacedLines(ls, as) ==
    IF ls = <<>> THEN <<>>
    ELSE IF Occurrences(Head(ls)) = 1 /\ as # <<>>
    THEN <<Substitute(Head(ls), <<Replacement(Head(ls), Head(as))>>)>>
             \o ReplacedLines(Tail(ls), Tail(as))
    ELSE <<Head(ls)>> \o ReplacedLines(Tail(ls), as)

----------------------------------------------------------------------------
(* Properties of multipyline and multipyline_inner, under SpecPure *)

\* C1: multipyline is idempotent: multipyline applied to the string
\* multipyline returned returns that string unchanged.
C1_Idempotent ==
    (fn = "multipyline" /\ pc = "again") => ret2 = ret

\* a call whose input was dedented and trimmed to several lines
C1_Witness ==
    /\ fn = "multipyline"
    /\ pc = "again"
    /\ ret # s
    /\ HasLineBreak(ret)
    /\ ret2 = ret

\* C2: for an empty or whitespace-only s, multipyline(s) is the empty string
\* and multipyline_inner(s, p) is the empty string for every prefix p.
C2_WhitespaceOnlyGivesEmpty ==
    (pc \in {"done", "again"} /\ IsWhitespaceOnly(s)) => ret = <<>>

\* multipyline_inner returned for whitespace and a prefix with a letter
C2_Witness ==
    /\ fn = "multipyline_inner"
    /\ pc = "done"
    /\ s # <<>>
    /\ IsWhitespaceOnly(s)
    /\ ~IsWhitespaceOnly(prefix)
    /\ ret = <<>>

\* every non-blank line of the returned string but the first begins with prefix
ContinuationLinesPrefixed ==
    \A k \in 2..Len(splitlines(ret)) :
        NonBlankLine(splitlines(ret)[k]) => startswith(splitlines(ret)[k], prefix)

\* C3, as claimed: for every s and every prefix p, every non-blank line of
\* multipyline_inner(s, p) other than the first begins with p.
C3_EveryPrefix ==
    (fn = "multipyline_inner" /\ pc = "done") => ContinuationLinesPrefixed

\* C3, amended: for every s and every prefix p that holds no line break,
\* every non-blank line of multipyline_inner(s, p) other than the first
\* begins with p.
C3_PrefixWithoutLineBreak ==
    (fn = "multipyline_inner" /\ pc = "done" /\ ~HasLineBreak(prefix))
        => ContinuationLinesPrefixed

\* a result with a non-blank continuation line under a non-empty prefix
C3_Witness ==
    /\ fn = "multipyline_inner"
    /\ pc = "done"
    /\ prefix # <<>>
    /\ ~HasLineBreak(prefix)
    /\ \E k \in 2..Len(splitlines(ret)) : NonBlankLine(splitlines(ret)[k])

\* the first line of the returned string is the first line of multipyline(s)
FirstLineUnprefixed ==
    /\ splitlines(ret) # <<>>
    /\ splitlines(ret)[1] = splitlines(multipyline(s))[1]

\* C9, as claimed: for every s whose dedent-and-trim is non-empty and every
\* prefix p of arbitrary content, the first line of multipyline_inner(s, p)
\* is the first line of multipyline(s).
C9_EveryPrefix ==
    (fn = "multipyline_inner" /\ pc = "done" /\ multipyline(s) # <<>>)
        => FirstLineUnprefixed

\* C9, amended: for every s whose dedent-and-trim is non-empty and every
\* prefix p made of whitespace only, the first line of
\* multipyline_inner(s, p) is the first line of multipyline(s).
C9_WhitespacePrefix ==
    (fn = "multipyline_inner" /\ pc = "done" /\ multipyline(s) # <<>>
        /\ IsWhitespaceOnly(prefix))
        => FirstLineUnprefixed

\* a result of several lines under a non-empty prefix of whitespace
C9_Witness ==
    /\ fn = "multipyline_inner"
    /\ pc = "done"
    /\ prefix # <<>>
    /\ IsWhitespaceOnly(prefix)
    /\ Len(splitlines(ret)) > 1

----------------------------------------------------------------------------
(* Properties of multipylinef, under Spec *)

\* C4: for a template with no placeholder marker on any line, and any
\* arguments, multipylinef returns multipyline(template).
C4_NoPlaceholderReturnsDedent ==
    (Terminated /\ Occurrences(s) = 0)
        => (pc = "done" /\ error = "none" /\ ret = multipyline(s))

FailedOutOfRange == pc = "raised" /\ error = "IndexError" /\ ret = NoValue

\* C6, as claimed: for a template with at most one marker on each line and
\* more markers than arguments, multipylinef fails with IndexError, returns
\* nothing, and the failure is raised by the positional substitution.
C6_RaisedBySubstitution ==
    (Terminated /\ AtMostOnePerLine(s) /\ Occurrences(s) > Len(args))
        => (FailedOutOfRange /\ raised_at = "format")

\* C6, amended: for a template with at most one marker on each line and
\* more markers than arguments, multipylinef fails with IndexError, returns
\* nothing, and the failure is raised by the scan, at the first single-marker
\* line that finds every argument taken, before the arguments are printed
\* and before the positional substitution.
C6_RaisedByScan ==
    (Terminated /\ AtMostOnePerLine(s) /\ Occurrences(s) > Len(args))
        => /\ FailedOutOfRange
           /\ raised_at = "scan"
           /\ ~printed
           /\ formatted = NoValue
           /\ arg_counter = Len(args)
           /\ Occurrences(splitlines(s)[line_idx]) = 1
           /\ SinglesAbove(s, line_idx) = Len(args)

\* IndexError raised after an argument was taken
C6_Witness ==
    /\ FailedOutOfRange
    /\ AtMostOnePerLine(s)
    /\ Len(args) >= 1
    /\ arg_counter = Len(args)

\* C7: substitution is positional and order-preserving: for a template with
\* n markers, at most one on each line, and at least n arguments, the k-th
\* marker from the top is replaced by the k-th argument as formatted for the
\* marker's line, for every k in 1..n.
C7_Positional ==
    (/\ Terminated
     /\ AtMostOnePerLine(s)
     /\ Occurrences(s) >= 1
     /\ Occurrences(s) <= Len(args))
        => /\ pc = "done"
           /\ error = "none"
           /\ formatted =
                  Substitute(s, [k \in 1..Occurrences(s) |->
                      formatted_argument(SingleMarkerLines(s)[k], args[k])])
           /\ ret = multipyline(formatted)

\* C8: for every line that holds exactly one marker, the replacement inserted
\* is multipyline_inner(argument, text before the marker) exactly when the
\* argument has more than one line and the marker is the first
\* non-whitespace token of the line, and the argument unmodified otherwise;
\* the template "    def fun():\n        {}" with the argument "a\nb" gives
\* "def fun():\n    a\n    b".
C8_Replacement ==
    /\ (/\ Terminated
        /\ AtMostOnePerLine(s)
        /\ Occurrences(s) >= 1
        /\ Occurrences(s) <= Len(args))
           => /\ pc = "done"
              /\ error = "none"
              /\ ret = multipyline(join_nl(ReplacedLines(splitlines(s), args)))
    /\ (Terminated /\ s = ExampleTemplate /\ args = <<ExampleArgument>>)
           => ret = ExampleResult

----------------------------------------------------------------------------
(* The substitution on templates whose braces all belong to markers *)

\* every brace of the template is part of a placeholder marker
BraceFree ==
    \A i \in 1..Len(s) :
        s[i] \in {LB, RB}
            => (i \in MarkerPositions(s) \/ (i - 1) \in MarkerPositions(s))

\* on such templates the substitution is positional
PositionalWhenBraceFree == BraceFree => C7_Positional

\* on such templates every replacement follows the substitution rule
ReplacementWhenBraceFree == BraceFree => C8_Replacement

\* on such templates a template without marker is returned dedented
NoPlaceholderWhenBraceFree == BraceFree => C4_NoPlaceholderReturnsDedent

====
